---- MODULE Spec2Model ----
(***************************************************************************)
(* A model of strict-store: a typed key-value layer over the two Web       *)
(* Storage areas (localStorage, sessionStorage).                           *)
(*                                                                         *)
(* Strings that the program inspects character by character (namespaces,  *)
(* names, raw storage keys) are sequences of one-character strings.        *)
(* Values are records tagged with their runtime kind.  A stored string is  *)
(* either JSON text, represented by the JSON tree it denotes, or a text    *)
(* that JSON.parse rejects (kind "raw").                                   *)
(***************************************************************************)
EXTENDS Integers, Sequences, FiniteSets, TLC

VARIABLES
    localStorage,    \* the persistent storage area: sequence of [key, value]
    sessionStorage,  \* the session storage area: sequence of [key, value]
    last,            \* the last operation performed and its outcome
    recent,          \* per StoreKey: the value of the latest save still in force
    listeners,       \* handlers registered on the window 'storage' channel
    subs,            \* one record per onChange call made so far, in call order
    calls,           \* callback invocations made for the last dispatched event
    cv,              \* codec exercise: the value being encoded and decoded
    inflight         \* the merge call that has read its key and not yet written

vars == <<localStorage, sessionStorage, last, recent, listeners, subs, calls, cv, inflight>>

----------------------------------------------------------------------------
(* Sequences helpers                                                       *)

Range(s) == {s[i] : i \in DOMAIN s}

startsWith(s, p) == Len(p) <= Len(s) /\ SubSeq(s, 1, Len(p)) = p

includes(s, c) == c \in Range(s)

RECURSIVE SeqFilterKeys(_, _)
\* the entries of storage sequence s whose key is not in ks, order kept
SeqFilterKeys(s, ks) ==
    IF s = <<>> THEN <<>>
    ELSE IF Head(s).key \in ks THEN SeqFilterKeys(Tail(s), ks)
         ELSE <<Head(s)>> \o SeqFilterKeys(Tail(s), ks)

----------------------------------------------------------------------------
(* Key addressing                                                          *)

\* the literal 'strict-store/'
PREFIX == <<"s","t","r","i","c","t","-","s","t","o","r","e","/">>

COLON == ":"

\* characters the regular expression atom '.' does not match
LineTerminators == {"\n", "\r"}

getFullName(ns, name) == PREFIX \o ns \o <<COLON>> \o name

\* position of the first ':' of raw at or after position i, 0 when none
RECURSIVE firstColon(_, _)
firstColon(raw, i) ==
    IF i > Len(raw) THEN 0
    ELSE IF raw[i] = COLON THEN i
         ELSE firstColon(raw, i + 1)

\* KEY_PATTERN = /^strict-store\/([^:]+):(.+)$/ : [^:]+ stops at the first
\* ':' after the prefix, '.+' needs at least one character and matches no
\* line terminator, '$' without the m flag is the end of the input.
KEY_PATTERN_ok(raw) ==
    /\ startsWith(raw, PREFIX)
    /\ LET c == firstColon(raw, Len(PREFIX) + 1) IN
         /\ c > Len(PREFIX) + 1
         /\ c < Len(raw)
         /\ \A i \in (c + 1)..Len(raw) : raw[i] \notin LineTerminators

KEY_PATTERN_ns(raw) ==
    SubSeq(raw, Len(PREFIX) + 1, firstColon(raw, Len(PREFIX) + 1) - 1)

KEY_PATTERN_name(raw) ==
    SubSeq(raw, firstColon(raw, Len(PREFIX) + 1) + 1, Len(raw))

StoreTypes == {"local", "session"}

\* createKey without the test for an empty namespace or name
createKey_allowsEmpty(ns, name, storeType) ==
    IF includes(ns, COLON) \/ includes(name, COLON)
    THEN [err |-> "Namespace and name must not contain the \":\" character."]
    ELSE [ns |-> ns, name |-> name, storeType |-> storeType]

\* createKey: the key, or the error it throws
createKey(ns, name, storeType) ==
    IF includes(ns, COLON) \/ includes(name, COLON)
    THEN [err |-> "Namespace and name must not contain the \":\" character."]
    ELSE IF Len(ns) = 0 \/ Len(name) = 0
    THEN [err |-> "The name or namespace cannot be empty."]
    ELSE [ns |-> ns, name |-> name, storeType |-> storeType]

\* createKey called without its third argument: storeType defaults to 'local'
createKeyDefault(ns, name) == createKey(ns, name, "local")

\* parseStoreKey: null when the pattern does not match
parseStoreKey(raw, storeType) ==
    IF ~KEY_PATTERN_ok(raw) THEN [kind |-> "null"]
    ELSE [ns |-> KEY_PATTERN_ns(raw), name |-> KEY_PATTERN_name(raw),
          storeType |-> storeType]

----------------------------------------------------------------------------
(* Value model                                                             *)
(*   null, bool, num (finite), nonfinite (NaN, Infinity: numbers too),     *)
(*   str / decstr / jsontext (strings: a literal, the decimal digits of an *)
(*   integer, the JSON text of a tree), arr, obj, bigint, map, set, typed, *)
(*   undefined.  Literal strings of the model are never decimal digits.    *)

Null == [kind |-> "null"]
Undefined == [kind |-> "undefined"]
Bool(b) == [kind |-> "bool", value |-> b]
Num(n) == [kind |-> "num", value |-> n]
NaN == [kind |-> "nonfinite", value |-> "NaN"]
Str(s) == [kind |-> "str", value |-> s]
DecStr(n) == [kind |-> "decstr", value |-> n]
JsonText(j) == [kind |-> "jsontext", value |-> j]
Arr(s) == [kind |-> "arr", value |-> s]
Obj(f) == [kind |-> "obj", value |-> f]
BigInt(n) == [kind |-> "bigint", value |-> n]
MapOf(pairs) == [kind |-> "map", value |-> pairs]
SetOf(members) == [kind |-> "set", value |-> members]
Typed(sub, elems) == [kind |-> "typed", sub |-> sub, value |-> elems]
Raw(text) == [kind |-> "raw", value |-> text]
Throw == [kind |-> "throw"]

EmptyFields == [f \in {} |-> Null]
Field(n, v) == n :> v

StringKinds == {"str", "decstr", "jsontext"}

\* typeof value === 'object' (null included, as in JavaScript)
IsObjectType(v) == v.kind \in {"null", "arr", "obj", "map", "set", "typed"}

isTypedArray(v) == v.kind = "typed"

TYPED_ARRAY_CONSTRUCTORS ==
    {"Int8Array", "Uint8Array", "Uint8ClampedArray", "Int16Array",
     "Uint16Array", "Int32Array", "Uint32Array", "Float32Array",
     "Float64Array", "BigInt64Array", "BigUint64Array"}

BigIntArrays == {"BigInt64Array", "BigUint64Array"}

----------------------------------------------------------------------------
(* Codec: strictJson.stringify with its replacer                           *)

BigIntMapper(v) ==
    Obj(Field("__type", Str("bigint")) @@ Field("value", DecStr(v.value)))

\* Array.from(value.entries()): one two-element array per entry
MapMapper(v) ==
    Obj(Field("__type", Str("map")) @@
        Field("value", Arr([i \in DOMAIN v.value |-> Arr(v.value[i])])))

SetMapper(v) ==
    Obj(Field("__type", Str("set")) @@ Field("value", Arr(v.value)))

\* 64-bit integer arrays give their elements as decimal strings
processTypedArray(v) ==
    IF v.sub \in BigIntArrays
    THEN [i \in DOMAIN v.value |-> DecStr(v.value[i].value)]
    ELSE v.value

TypedArrayMapper(v) ==
    Obj(Field("__type", Str("typedArray")) @@
        Field("value", Arr(processTypedArray(v))) @@
        Field("subtype", Str(v.sub)))

\* replacer without the branch for Set
replacer_noSet(v) ==
    IF v.kind = "bigint" THEN BigIntMapper(v)
    ELSE IF v.kind = "map" THEN MapMapper(v)
    ELSE IF isTypedArray(v) THEN TypedArrayMapper(v)
    ELSE v

replacer(v) ==
    IF v.kind = "bigint" THEN BigIntMapper(v)
    ELSE IF v.kind = "map" THEN MapMapper(v)
    ELSE IF v.kind = "set" THEN SetMapper(v)
    ELSE IF isTypedArray(v) THEN TypedArrayMapper(v)
    ELSE v

\* JSON.stringify(value, replacer): the replacer is applied to every node
\* before it is serialised; a non-finite number becomes null, undefined
\* becomes null inside an array and drops its field inside an object.
RECURSIVE serialize(_)
serialize(v) ==
    LET r == replacer(v) IN
    IF r.kind = "arr" THEN
        Arr([i \in DOMAIN r.value |->
               LET e == serialize(r.value[i]) IN
               IF e = Undefined THEN Null ELSE e])
    ELSE IF r.kind = "obj" THEN
        LET kept == {f \in DOMAIN r.value : serialize(r.value[f]) # Undefined}
        IN Obj([f \in kept |-> serialize(r.value[f])])
    ELSE IF r.kind = "nonfinite" THEN Null
    \* a Map or Set the replacer let through has no enumerable field
    ELSE IF r.kind \in {"map", "set"} THEN Obj(EmptyFields)
    ELSE r

\* the string handed to Storage.setItem: JSON.stringify gives undefined for
\* undefined, which setItem converts to the text 'undefined'
stringify(v) ==
    LET j == serialize(v) IN
    IF j = Undefined THEN Raw("undefined") ELSE j

----------------------------------------------------------------------------
(* Codec: strictJson.parse with its reviver                                *)

Pow2(w) == 2 ^ w

\* ToInt8, ToUint16, ...: the integer n reduced to the element width.  The
\* integers of the model lie within the signed 32-bit range, where the
\* reduction to 32 or 64 bits changes nothing; payloads of the unsigned 32-
\* and 64-bit variants are never negative in the model.
WrapUnsigned(n, w) == IF w >= 32 THEN n ELSE n % Pow2(w)
WrapSigned(n, w) ==
    IF w >= 32 THEN n
    ELSE LET m == n % Pow2(w) IN IF m >= Pow2(w - 1) THEN m - Pow2(w) ELSE m

ElementWidth(sub) ==
    CASE sub \in {"Int8Array", "Uint8Array", "Uint8ClampedArray"} -> 8
      [] sub \in {"Int16Array", "Uint16Array"} -> 16
      [] sub \in {"Int32Array", "Uint32Array"} -> 32
      [] OTHER -> 64

\* BigInt(x): digits and whole numbers convert, booleans give 0n or 1n,
\* anything else the model holds is rejected with an exception
JsBigInt(x) ==
    CASE x.kind \in {"decstr", "num", "bigint"} -> BigInt(x.value)
      [] x.kind = "bool" -> BigInt(IF x.value THEN 1 ELSE 0)
      [] OTHER -> Throw

\* SameValueZero can only identify primitives: two parsed objects are
\* never the same object
IsPrimitiveKey(k) == ~IsObjectType(k) \/ k = Null

\* members equal as primitives are kept once, at their first position
RECURSIVE DedupMembers(_, _)
DedupMembers(s, seen) ==
    IF s = <<>> THEN <<>>
    ELSE IF Head(s) \in seen /\ IsPrimitiveKey(Head(s))
         THEN DedupMembers(Tail(s), seen)
         ELSE <<Head(s)>> \o DedupMembers(Tail(s), seen \cup {Head(s)})

\* new Set(x): an array gives its members, null the empty set
JsNewSet(x) ==
    CASE x.kind = "arr" -> SetOf(DedupMembers(x.value, {}))
      [] x.kind = "null" -> SetOf(<<>>)
      [] OTHER -> Throw

\* the entry [k, v] read from a revived pair: missing positions are undefined
PairOf(e) ==
    << IF Len(e.value) >= 1 THEN e.value[1] ELSE Undefined,
       IF Len(e.value) >= 2 THEN e.value[2] ELSE Undefined >>

\* Map.prototype.set over the entries in order: a primitive key already
\* present keeps its position and takes the later value
RECURSIVE MapSetAll(_, _)
MapSetAll(acc, pairs) ==
    IF pairs = <<>> THEN acc
    ELSE LET p == Head(pairs)
             hit == {i \in DOMAIN acc : acc[i][1] = p[1] /\ IsPrimitiveKey(p[1])}
         IN IF hit = {}
            THEN MapSetAll(Append(acc, p), Tail(pairs))
            ELSE MapSetAll([i \in DOMAIN acc |-> IF i \in hit THEN p ELSE acc[i]],
                           Tail(pairs))

\* new Map(x): every element must be an object to be read as an entry
JsNewMap(x) ==
    CASE x.kind = "null" -> MapOf(<<>>)
      [] x.kind = "arr" ->
           IF \A i \in DOMAIN x.value : x.value[i].kind = "arr"
           THEN MapOf(MapSetAll(<<>>, [i \in DOMAIN x.value |-> PairOf(x.value[i])]))
           ELSE Throw
      [] OTHER -> Throw

\* ToNumber / ToBigInt of one payload element followed by the conversion to
\* the element type; Throw when the conversion raises a TypeError
TypedElement(sub, e) ==
    IF sub \in BigIntArrays THEN
        CASE e.kind \in {"decstr", "bigint"} ->
               BigInt(IF sub = "BigInt64Array" THEN WrapSigned(e.value, 64)
                      ELSE WrapUnsigned(e.value, 64))
          [] e.kind = "bool" -> BigInt(IF e.value THEN 1 ELSE 0)
          [] OTHER -> Throw
    ELSE
        LET n == CASE e.kind \in {"num", "decstr"} -> e.value
                   [] e.kind = "bool" -> IF e.value THEN 1 ELSE 0
                   [] OTHER -> 0
            nan == e.kind \in {"str", "jsontext", "undefined", "obj", "nonfinite"}
        IN CASE e.kind = "bigint" -> Throw
             [] sub \in {"Float32Array", "Float64Array"} ->
                  IF nan THEN NaN ELSE Num(n)
             [] sub = "Uint8ClampedArray" ->
                  Num(IF n < 0 THEN 0 ELSE IF n > 255 THEN 255 ELSE n)
             [] sub \in {"Int8Array", "Int16Array", "Int32Array"} ->
                  Num(WrapSigned(n, ElementWidth(sub)))
             [] OTHER -> Num(WrapUnsigned(n, ElementWidth(sub)))

\* new Constructor(x) for a constructor of TYPED_ARRAY_CONSTRUCTORS
JsNewTypedArray(sub, x) ==
    CASE x.kind = "arr" ->
           LET es == [i \in DOMAIN x.value |-> TypedElement(sub, x.value[i])]
           IN IF \E i \in DOMAIN es : es[i] = Throw THEN Throw
              ELSE Typed(sub, es)
      [] x.kind = "num" /\ x.value >= 0 ->
           Typed(sub, [i \in 1..x.value |->
                         IF sub \in BigIntArrays THEN BigInt(0) ELSE Num(0)])
      [] x.kind \in {"null", "obj"} -> Typed(sub, <<>>)
      [] OTHER -> Throw

\* reviver: an object holding both '__type' and 'value' is a wrapper
\* a reviver that gives every object back as it is
reviver_keepsObjects(v) == v

reviver(v) ==
    IF /\ v.kind = "obj"
       /\ "__type" \in DOMAIN v.value
       /\ "value" \in DOMAIN v.value
    THEN LET typeName == v.value["__type"]
             payload == v.value["value"]
         IN CASE typeName = Str("bigint") -> JsBigInt(payload)
              [] typeName = Str("map") -> JsNewMap(payload)
              [] typeName = Str("set") -> JsNewSet(payload)
              [] typeName = Str("typedArray") ->
                   IF /\ "subtype" \in DOMAIN v.value
                      /\ v.value["subtype"].kind = "str"
                      /\ v.value["subtype"].value \in TYPED_ARRAY_CONSTRUCTORS
                   THEN JsNewTypedArray(v.value["subtype"].value, payload)
                   ELSE Throw
              [] OTHER -> Throw
    ELSE v

\* JSON.parse(text, reviver) on the tree of a JSON text: children first,
\* then the node itself; an exception of the reviver leaves the whole parse
RECURSIVE internalize(_)
internalize(j) ==
    IF j.kind = "arr" THEN
        LET kids == [i \in DOMAIN j.value |-> internalize(j.value[i])] IN
        IF \E i \in DOMAIN kids : kids[i] = Throw THEN Throw
        ELSE reviver(Arr(kids))
    ELSE IF j.kind = "obj" THEN
        LET kids == [f \in DOMAIN j.value |-> internalize(j.value[f])] IN
        IF \E f \in DOMAIN kids : kids[f] = Throw THEN Throw
        ELSE reviver(Obj(kids))
    ELSE reviver(j)

\* the JavaScript string that holds the text w
TextAsString(w) == IF w.kind = "raw" THEN Str(w.value) ELSE JsonText(w)

\* strictJson.parse: whatever JSON.parse or the reviver throws is caught and
\* the stored text itself is returned
parse(w) ==
    IF w.kind = "raw" THEN TextAsString(w)
    ELSE LET r == internalize(w) IN
         IF r = Throw THEN TextAsString(w) ELSE r

----------------------------------------------------------------------------
(* The Web Storage areas (the host): an area is the sequence of its        *)
(* entries [key, value] in enumeration order; db is the pair of areas.     *)

\* the null that getItem returns for a key without entry
NoItem == [kind |-> "noitem"]

\* an optional list argument: left out, or given as a list
NoArg == [given |-> FALSE, list |-> <<>>]
Given(l) == [given |-> TRUE, list |-> l]

DB == [local |-> localStorage, session |-> sessionStorage]

getStorage(db, type) == IF type = "local" THEN db.local ELSE db.session

StorageKeys(st) == {st[i].key : i \in DOMAIN st}

getItem(st, k) ==
    IF \E i \in DOMAIN st : st[i].key = k
    THEN st[CHOOSE i \in DOMAIN st : st[i].key = k].value
    ELSE NoItem

setItem(st, k, w) ==
    IF \E i \in DOMAIN st : st[i].key = k
    THEN [i \in DOMAIN st |-> IF st[i].key = k THEN [key |-> k, value |-> w] ELSE st[i]]
    ELSE Append(st, [key |-> k, value |-> w])

removeItem(st, k) == SeqFilterKeys(st, {k})

\* db with the area of the given type replaced
WithStorage(db, type, st) ==
    IF type = "local" THEN [db EXCEPT !.local = st] ELSE [db EXCEPT !.session = st]

----------------------------------------------------------------------------
(* Facade operations of StrictStore, as functions of the storage areas     *)

get(db, key) ==
    LET storedValue == getItem(getStorage(db, key.storeType),
                               getFullName(key.ns, key.name))
    IN IF storedValue = NoItem THEN Null ELSE parse(storedValue)

\* has that reads the value: a stored null counts as absent
has_nullIsAbsent(db, key) == get(db, key) # Null

has(db, key) ==
    getItem(getStorage(db, key.storeType), getFullName(key.ns, key.name)) # NoItem

\* has called with a list of keys
hasMany(db, keys) == [i \in DOMAIN keys |-> has(db, keys[i])]

\* getAllPrefixes without the ':' that ends the namespace
getAllPrefixes_noDelimiter(ns) ==
    IF ns.given /\ Len(ns.list) > 0
    THEN [i \in DOMAIN ns.list |-> PREFIX \o ns.list[i]]
    ELSE <<PREFIX>>

\* ns.map(n => `strict-store/${n}:`), or the library prefix alone
getAllPrefixes(ns) ==
    IF ns.given /\ Len(ns.list) > 0
    THEN [i \in DOMAIN ns.list |-> PREFIX \o ns.list[i] \o <<COLON>>]
    ELSE <<PREFIX>>

\* the inner loop of getAll over one area
RECURSIVE getAllScan(_, _, _)
getAllScan(st, storageType, prefixes) ==
    IF st = <<>> THEN <<>>
    ELSE LET keyStr == Head(st).key
             rest == getAllScan(Tail(st), storageType, prefixes)
         IN IF Len(keyStr) = 0 THEN rest
            ELSE IF ~\E i \in DOMAIN prefixes : startsWith(keyStr, prefixes[i]) THEN rest
            ELSE IF ~KEY_PATTERN_ok(keyStr) THEN rest
            ELSE <<[key |-> parseStoreKey(keyStr, storageType),
                    value |-> parse(Head(st).value),
                    storageType |-> storageType]>> \o rest

getAll(db, ns) ==
    IF ns.given /\ Len(ns.list) = 0 THEN <<>>
    ELSE getAllScan(db.local, "local", getAllPrefixes(ns))
         \o getAllScan(db.session, "session", getAllPrefixes(ns))

size(db, ns) == Len(getAll(db, ns))

\* a save that writes to local storage whatever the area of the key
save_alwaysLocal(db, key, value) ==
    WithStorage(db, "local",
                setItem(getStorage(db, "local"),
                        getFullName(key.ns, key.name), stringify(value)))

save(db, key, value) ==
    WithStorage(db, key.storeType,
                setItem(getStorage(db, key.storeType),
                        getFullName(key.ns, key.name), stringify(value)))

\* entries is a sequence of <<key, value>> pairs
RECURSIVE saveMany(_, _)
saveMany(db, entries) ==
    IF entries = <<>> THEN db
    ELSE saveMany(save(db, Head(entries)[1], Head(entries)[2]), Tail(entries))

\* remove that takes every key from localStorage, whatever its storeType
RECURSIVE remove_alwaysLocal(_, _)
remove_alwaysLocal(db, keys) ==
    IF keys = <<>> THEN db
    ELSE remove_alwaysLocal(
             WithStorage(db, "local",
                         removeItem(db.local,
                                    getFullName(Head(keys).ns, Head(keys).name))),
             Tail(keys))

RECURSIVE remove(_, _)
remove(db, keys) ==
    IF keys = <<>> THEN db
    ELSE remove(WithStorage(db, Head(keys).storeType,
                            removeItem(getStorage(db, Head(keys).storeType),
                                       getFullName(Head(keys).ns, Head(keys).name))),
                Tail(keys))

RECURSIVE clearItems(_, _)
clearItems(db, items) ==
    IF items = <<>> THEN db
    ELSE clearItems(remove(db, <<Head(items).key>>), Tail(items))

\* clear that treats an empty list like a missing argument
clear_emptyListClearsAll(db, ns) ==
    IF ns.given /\ Len(ns.list) > 0 THEN clearItems(db, getAll(db, ns))
    ELSE clearItems(db, getAll(db, NoArg))

clear(db, ns) ==
    IF ns.given /\ Len(ns.list) = 0 THEN db
    ELSE clearItems(db, getAll(db, ns))

----------------------------------------------------------------------------
(* Deep merge: deepMerge is lodash mergeWith({}, target, source,           *)
(* customizer).  Field names of the model are never array indices or       *)
(* 'length', so a property set on an array, map, set or numeric array is   *)
(* an expando that serialisation does not see.                             *)

Max(a, b) == IF a >= b THEN a ELSE b

\* isObject(value) of lodash: an object, not a primitive and not null
IsObject(v) == v.kind \in {"arr", "obj", "map", "set", "typed"}

\* a customizer without the rule for arrays: lodash then merges them index
\* by index
customizer_noArrayRule(objValue, srcValue) ==
    IF objValue.kind = "set" /\ srcValue.kind = "set" THEN srcValue
    ELSE IF objValue.kind = "map" /\ srcValue.kind = "map" THEN srcValue
    ELSE IF isTypedArray(objValue) /\ isTypedArray(srcValue) THEN srcValue
    ELSE Undefined

\* the customizer handed to mergeWith: srcValue, or Undefined for 'use the
\* default merge'
customizer(objValue, srcValue) ==
    IF objValue.kind = "arr" /\ srcValue.kind = "arr" THEN srcValue
    ELSE IF objValue.kind = "set" /\ srcValue.kind = "set" THEN srcValue
    ELSE IF objValue.kind = "map" /\ srcValue.kind = "map" THEN srcValue
    ELSE IF isTypedArray(objValue) /\ isTypedArray(srcValue) THEN srcValue
    ELSE Undefined

RECURSIVE mergeValue(_, _), mergeFields(_, _), mergeIndices(_, _)

\* baseMerge over the own fields of a plain-object source
mergeFields(object, source) ==
    [f \in (DOMAIN object) \cup (DOMAIN source) |->
        IF f \in DOMAIN source
        THEN mergeValue(IF f \in DOMAIN object THEN object[f] ELSE Undefined,
                        source[f])
        ELSE object[f]]

\* baseMerge over the indices of an array or numeric-array source
mergeIndices(object, source) ==
    [i \in 1..Max(Len(object), Len(source)) |->
        IF i <= Len(source)
        THEN mergeValue(IF i <= Len(object) THEN object[i] ELSE Undefined,
                        source[i])
        ELSE object[i]]

\* the value a key holds after baseMerge / baseMergeDeep handled it:
\* objValue is what the destination held (Undefined when nothing)
mergeValue(objValue, srcValue) ==
    IF ~IsObject(srcValue) THEN
        \* assignMergeValue: undefined never overwrites an existing key
        IF srcValue = Undefined THEN objValue ELSE srcValue
    ELSE IF customizer(objValue, srcValue) # Undefined THEN
        customizer(objValue, srcValue)
    ELSE IF srcValue.kind = "arr" THEN
        \* merged into the destination array; a numeric array there is
        \* array-like and is first copied to an array
        Arr(mergeIndices(IF objValue.kind \in {"arr", "typed"}
                         THEN objValue.value ELSE <<>>,
                         srcValue.value))
    ELSE IF isTypedArray(srcValue) THEN
        IF objValue.kind = "arr"
        THEN Arr(mergeIndices(objValue.value, srcValue.value))
        ELSE srcValue
    ELSE IF srcValue.kind = "obj" THEN
        IF objValue.kind = "obj" THEN Obj(mergeFields(objValue.value, srcValue.value))
        ELSE IF IsObject(objValue) THEN objValue
        ELSE Obj(mergeFields(EmptyFields, srcValue.value))
    ELSE srcValue

\* keysIn(value): the enumerable keys baseMerge iterates, with their values
OwnFields(v) ==
    CASE v.kind = "obj" -> v.value
      [] v.kind \in {"arr", "typed"} ->
           [f \in {ToString(i - 1) : i \in DOMAIN v.value} |->
              v.value[CHOOSE i \in DOMAIN v.value : ToString(i - 1) = f]]
      [] OTHER -> EmptyFields

deepMerge(target, source) ==
    Obj(mergeFields(mergeFields(EmptyFields, OwnFields(target)), OwnFields(source)))

ErrNone == "none"
ErrCannotInitialize ==
    "StrictStore.merge: Cannot initialize the object. Use StrictStore.save for initial value."
ErrNotPlainObject == "StrictStore.merge: Can only merge into plain objects"

\* merge that starts from an empty object when nothing is stored
merge_initializes(db, key, partial) ==
    LET storage == getStorage(db, key.storeType)
        fullKey == getFullName(key.ns, key.name)
        storedValue == getItem(storage, fullKey)
        current == IF storedValue # NoItem THEN parse(storedValue) ELSE Obj(EmptyFields)
    IN IF ~IsObjectType(current) \/ current.kind = "arr" \/ current = Null
       THEN [db |-> db, err |-> ErrNotPlainObject]
       ELSE [db |-> WithStorage(db, key.storeType,
                                setItem(storage, fullKey,
                                        stringify(deepMerge(current, partial)))),
             err |-> ErrNone]

\* merge: the areas afterwards and the error thrown, if any
merge(db, key, partial) ==
    LET storage == getStorage(db, key.storeType)
        fullKey == getFullName(key.ns, key.name)
        storedValue == getItem(storage, fullKey)
        current == IF storedValue # NoItem THEN parse(storedValue) ELSE Null
    IN IF current = Null
       THEN [db |-> db, err |-> ErrCannotInitialize]
       ELSE IF ~IsObjectType(current) \/ current.kind = "arr"
       THEN [db |-> db, err |-> ErrNotPlainObject]
       ELSE [db |-> WithStorage(db, key.storeType,
                                setItem(storage, fullKey,
                                        stringify(deepMerge(current, partial)))),
             err |-> ErrNone]

----------------------------------------------------------------------------
(* Change observation                                                      *)
(*   a target is left out, an empty list, a list of namespaces or a list   *)
(*   of StoreKeys;                                                         *)
(*   a storage event is [key, newValue, oldValue, storageArea] where the   *)
(*   empty key stands for a null or empty key and NoItem for a null value. *)

NoTarget == [form |-> "none", namespaces |-> <<>>, storeKeys |-> <<>>]
EmptyTarget == [form |-> "empty", namespaces |-> <<>>, storeKeys |-> <<>>]
NsTarget(l) == [form |-> "ns", namespaces |-> l, storeKeys |-> <<>>]
KeyTarget(l) == [form |-> "keys", namespaces |-> <<>>, storeKeys |-> l]

\* onChange that takes an empty list for a missing target
onChangeFilters_emptyIsAll(target) ==
    IF target.form = "none" \/ Len(target.namespaces) + Len(target.storeKeys) = 0
    THEN [keyNames |-> NoArg, nsPrefixes |-> NoArg]
    ELSE IF target.form = "ns"
    THEN [keyNames |-> NoArg,
          nsPrefixes |-> Given([i \in DOMAIN target.namespaces |->
                                   PREFIX \o target.namespaces[i] \o <<COLON>>])]
    ELSE [keyNames |-> Given([i \in DOMAIN target.storeKeys |->
                                 getFullName(target.storeKeys[i].ns,
                                             target.storeKeys[i].name)]),
          nsPrefixes |-> NoArg]

\* the two filters onChange derives from its target; form "ns" is a list
\* whose first element is a string (typeof target[0] === 'string')
onChangeFilters(target) ==
    IF target.form = "none" THEN [keyNames |-> NoArg, nsPrefixes |-> NoArg]
    ELSE IF Len(target.namespaces) + Len(target.storeKeys) = 0
    THEN [keyNames |-> Given(<<>>), nsPrefixes |-> Given(<<>>)]
    ELSE IF target.form = "ns"
    THEN [keyNames |-> NoArg,
          nsPrefixes |-> Given([i \in DOMAIN target.namespaces |->
                                   PREFIX \o target.namespaces[i] \o <<COLON>>])]
    ELSE [keyNames |-> Given([i \in DOMAIN target.storeKeys |->
                                 getFullName(target.storeKeys[i].ns,
                                             target.storeKeys[i].name)]),
          nsPrefixes |-> NoArg]

\* the filtering at the head of the handler: the three early returns on
\* the event's key
inlineFilter(f, e) ==
    /\ Len(e.key) > 0
    /\ startsWith(e.key, PREFIX)
    /\ IF f.keyNames.given
       THEN \E i \in DOMAIN f.keyNames.list : f.keyNames.list[i] = e.key
       ELSE IF f.nsPrefixes.given
       THEN \E i \in DOMAIN f.nsPrefixes.list : startsWith(e.key, f.nsPrefixes.list[i])
       ELSE TRUE

\* whether the handler of a subscription reaches its callback for event e
handlerPasses(f, e) ==
    /\ inlineFilter(f, e)
    /\ KEY_PATTERN_ok(e.key)

\* the arguments the handler passes to the callback
handlerCall(id, e) ==
    LET storageType == IF e.storageArea = "local" THEN "local" ELSE "session"
    IN [id |-> id,
        key |-> parseStoreKey(e.key, storageType),
        newValue |-> IF e.newValue # NoItem THEN parse(e.newValue) ELSE Null,
        oldValue |-> IF e.oldValue # NoItem THEN parse(e.oldValue) ELSE Null,
        storeType |-> storageType]

\* window.dispatchEvent: every registered handler runs, in registration order
RECURSIVE dispatch(_, _)
dispatch(ls, e) ==
    IF ls = <<>> THEN <<>>
    ELSE (IF handlerPasses(Head(ls).filters, e)
          THEN <<handlerCall(Head(ls).id, e)>> ELSE <<>>)
         \o dispatch(Tail(ls), e)

RECURSIVE dispatchEach(_, _)
\* the events es dispatched on the window one after the other
dispatchEach(ls, es) ==
    IF es = <<>> THEN <<>>
    ELSE dispatch(ls, Head(es)) \o dispatchEach(ls, Tail(es))

\* window.removeEventListener('storage', handler) for the handler of the
\* onChange call id: that handler leaves the list, the others keep their
\* order; nothing happens when it is not registered
removeEventListener_all(ls, id) == <<>>

removeEventListener(ls, id) ==
    SelectSeq(ls, LAMBDA l : l.id # id)

RECURSIVE changedEntries(_, _, _), addedEntries(_, _, _)
\* the storage events for entries of area s1 that s2 holds with another
\* value or not at all
changedEntries(type, s1, s2) ==
    IF s1 = <<>> THEN <<>>
    ELSE (IF getItem(s2, Head(s1).key) = Head(s1).value THEN <<>>
          ELSE <<[key |-> Head(s1).key,
                  newValue |-> getItem(s2, Head(s1).key),
                  oldValue |-> Head(s1).value,
                  storageArea |-> type]>>)
         \o changedEntries(type, Tail(s1), s2)

\* the storage events for entries of area s2 that s1 does not hold
addedEntries(type, s1, s2) ==
    IF s2 = <<>> THEN <<>>
    ELSE (IF getItem(s1, Head(s2).key) # NoItem THEN <<>>
          ELSE <<[key |-> Head(s2).key,
                  newValue |-> Head(s2).value,
                  oldValue |-> NoItem,
                  storageArea |-> type]>>)
         \o addedEntries(type, s1, Tail(s2))

\* the storage events the host raises for the change of the areas from db1
\* to db2: one per entry set to another value, added or removed
hostEvents(db1, db2) ==
    changedEntries("local", db1.local, db2.local)
    \o addedEntries("local", db1.local, db2.local)
    \o changedEntries("session", db1.session, db2.session)
    \o addedEntries("session", db1.session, db2.session)

\* the execution contexts sharing the areas: this window and another one
Contexts == {"this", "other"}

\* the host delivers the events of a change made in context origin to
\* every other context, never back to origin
hostBroadcast(origin, db1, db2) ==
    {[to |-> c, event |-> hostEvents(db1, db2)[i]] :
        c \in Contexts \ {origin}, i \in DOMAIN hostEvents(db1, db2)}

\* the events save, saveMany, merge, remove and clear dispatch on their own
\* window: they only call Storage.setItem and Storage.removeItem, none of
\* them dispatches anything
ownDispatch_notifiesSelf(db1, db2) == hostEvents(db1, db2)

ownDispatch(db1, db2) == <<>>

----------------------------------------------------------------------------
(* Inputs of the model                                                     *)

\* capacity of one storage area, in entries
MaxEntries == 2
\* longest list handed to saveMany, remove and clear
MaxBatch == 2

NsA == <<"a">>
NsAB == <<"a", "b">>
NameX == <<"x">>
\* a name with a line break in it
NameNL == <<"x", "\n", "y">>

Namespaces == {NsA, NsAB}
Names == {NameX, NameNL}

KeyAX == createKey(NsA, NameX, "local")
KeyABX == createKey(NsAB, NameX, "local")
KeyANL == createKey(NsA, NameNL, "local")
KeyAXs == createKey(NsA, NameX, "session")

Keys == {KeyAX, KeyABX, KeyANL, KeyAXs}

\* a key of some other code sharing the areas
ForeignKey == <<"f">>
ForeignValue == Raw("dark")

ObjA(n) == Obj(Field("a", Num(n)))

StoreValues == {Str("dark"), ObjA(1)}
StorePartials == {ObjA(2)}

\* all sequences over S of length at most n
RECURSIVE SeqsUpTo(_, _)
SeqsUpTo(S, n) ==
    IF n = 0 THEN {<<>>}
    ELSE LET shorter == SeqsUpTo(S, n - 1)
         IN shorter \cup {Append(q, x) : q \in shorter, x \in S}

Fits(db) == Len(db.local) <= MaxEntries /\ Len(db.session) <= MaxEntries

----------------------------------------------------------------------------
(* State machine                                                           *)

NoSave == [kind |-> "nosave"]

\* no merge call is between its read and its write
NoMerge == [kind |-> "nomerge"]

Idle == [act |-> "init", arg |-> Null, changed |-> FALSE, err |-> ErrNone]

InitCommon ==
    /\ last = Idle
    /\ recent = [k \in Keys |-> NoSave]
    /\ listeners = <<>>
    /\ subs = <<>>
    /\ calls = <<>>
    /\ cv = Null
    /\ inflight = NoMerge

\* the areas start empty or already hold an entry of other code
Init ==
    /\ localStorage \in {<<>>, <<[key |-> ForeignKey, value |-> ForeignValue]>>}
    /\ sessionStorage \in {<<>>, <<[key |-> ForeignKey, value |-> ForeignValue]>>}
    /\ InitCommon

\* both areas start empty
InitEmpty ==
    /\ localStorage = <<>>
    /\ sessionStorage = <<>>
    /\ InitCommon

\* the step to areas db, recorded as operation act on arg; changed tells
\* whether the operation altered an area
Step(db, act, arg, err) ==
    /\ Fits(db)
    /\ localStorage' = db.local
    /\ sessionStorage' = db.session
    /\ last' = [act |-> act, arg |-> arg, changed |-> (db # DB), err |-> err]
    /\ calls' = dispatchEach(listeners, ownDispatch(DB, db))
    /\ UNCHANGED <<listeners, subs, cv, inflight>>

\* record of the latest save in force, kept beside the areas
RECURSIVE recentAfterSaves(_, _)
recentAfterSaves(r, entries) ==
    IF entries = <<>> THEN r
    ELSE recentAfterSaves([r EXCEPT ![Head(entries)[1]] = Head(entries)[2]],
                          Tail(entries))

Covers(ns, key) == ~ns.given \/ key.ns \in Range(ns.list)

Save(key, value) ==
    /\ Step(save(DB, key, value), "save", [key |-> key, value |-> value], ErrNone)
    /\ recent' = recentAfterSaves(recent, <<<<key, value>>>>)

SaveMany(entries) ==
    /\ \A i \in 1..Len(entries) : Fits(saveMany(DB, SubSeq(entries, 1, i)))
    /\ Step(saveMany(DB, entries), "saveMany", [entries |-> entries], ErrNone)
    /\ recent' = recentAfterSaves(recent, entries)

Remove(keys) ==
    /\ Step(remove(DB, keys), "remove", [keys |-> keys], ErrNone)
    /\ recent' = [k \in Keys |-> IF k \in Range(keys) THEN NoSave ELSE recent[k]]

Clear(ns) ==
    /\ Step(clear(DB, ns), "clear", ns, ErrNone)
    /\ recent' = [k \in Keys |-> IF Covers(ns, k) THEN NoSave ELSE recent[k]]

Merge(key, partial) ==
    /\ Step(merge(DB, key, partial).db, "merge",
            [key |-> key, partial |-> partial], merge(DB, key, partial).err)
    /\ UNCHANGED recent

NextBasic ==
    \/ \E k \in Keys, v \in StoreValues : Save(k, v)
    \/ \E es \in SeqsUpTo({KeyAX, KeyAXs} \X StoreValues, MaxBatch) : SaveMany(es)
    \/ \E ks \in SeqsUpTo(Keys, MaxBatch) : Remove(ks)
    \/ Clear(NoArg)
    \/ \E l \in SeqsUpTo(Namespaces, MaxBatch) : Clear(Given(l))

SpecBasic == Init /\ [][NextBasic]_vars

Next ==
    \/ \E k \in Keys, v \in StoreValues : Save(k, v)
    \/ \E ks \in SeqsUpTo(Keys, MaxBatch) : Remove(ks)
    \/ Clear(NoArg)
    \/ \E l \in SeqsUpTo(Namespaces, MaxBatch) : Clear(Given(l))
    \/ \E k \in Keys, p \in StorePartials : Merge(k, p)

Spec == Init /\ [][Next]_vars

----------------------------------------------------------------------------
(* Properties of the facade operations                                     *)

LibraryOwned(raw) == startsWith(raw, PREFIX)

AreaKeys(db, type) == StorageKeys(getStorage(db, type))

\* the raw keys the model can hold in an area
RawKeys == {getFullName(k.ns, k.name) : k \in Keys} \cup {ForeignKey}

SameEntry(db1, db2, type, raw) ==
    getItem(getStorage(db1, type), raw) = getItem(getStorage(db2, type), raw)

\* C1: for every key k, get(k) returns the value of the most recent save of
\* k that no later remove of k or clear covering k's namespace followed,
\* and null when there is no such save.
C1_GetReturnsRecentSave ==
    \A k \in Keys :
        get(DB, k) = IF recent[k] = NoSave THEN Null ELSE recent[k]

\* the namespaces an operation is addressed to
Touched(l) ==
    CASE l.act \in {"save", "merge"} -> {l.arg.key.ns}
      [] l.act = "remove" -> {l.arg.keys[i].ns : i \in DOMAIN l.arg.keys}
      [] l.act = "clear" /\ l.arg.given -> Range(l.arg.list)
      [] OTHER -> Namespaces

\* C3: a save, merge or remove on keys of one namespace and a clear of a
\* list of namespaces leave the presence and the value of every key of any
\* other namespace unchanged, also when one namespace is a prefix of the
\* other.
C3_NamespaceIsolation ==
    [][\A k \in Keys :
          k.ns \notin Touched(last') =>
              /\ has(DB', k) = has(DB, k)
              /\ get(DB', k) = get(DB, k)]_vars

\* a clear of namespace 'a' removed something while the key of 'ab' stayed
C3_Witness ==
    /\ last.act = "clear"
    /\ last.arg = Given(<<NsA>>)
    /\ last.changed
    /\ has(DB, KeyABX)

\* C4: after clear() without argument no raw key carrying the library
\* prefix remains in either area, and every foreign key is still there with
\* its value.
C4_ClearAllRemovesLibraryKeys ==
    [][(last'.act = "clear" /\ ~last'.arg.given) =>
          \A type \in StoreTypes :
              /\ \A raw \in AreaKeys(DB', type) : ~LibraryOwned(raw)
              /\ \A raw \in AreaKeys(DB, type) :
                    ~LibraryOwned(raw) => SameEntry(DB, DB', type, raw)]_vars

\* C5: clear([]) leaves both areas as they were, so size() and every get(k)
\* give the same result before and after.
C5_ClearEmptyListIsNoOp ==
    [][(last'.act = "clear" /\ last'.arg = Given(<<>>)) =>
          /\ DB' = DB
          /\ size(DB', NoArg) = size(DB, NoArg)
          /\ \A k \in Keys : get(DB', k) = get(DB, k)]_vars

\* clear([]) was called on areas holding a library entry and a foreign one
C5_Witness ==
    /\ last.act = "clear"
    /\ last.arg = Given(<<>>)
    /\ size(DB, NoArg) > 0
    /\ ForeignKey \in AreaKeys(DB, "local")

\* the raw keys of the given area that a remove(keys) call names
Listed(keys, type) ==
    {getFullName(keys[i].ns, keys[i].name) :
        i \in {j \in DOMAIN keys : keys[j].storeType = type}}

\* C6: remove(keys) never throws and deletes exactly the listed keys, each
\* from its own area; an absent listed key is ignored and every entry not
\* listed keeps its presence and value.
C6_RemoveExactlyListed ==
    [][last'.act = "remove" =>
          /\ last'.err = ErrNone
          /\ \A type \in StoreTypes :
                /\ AreaKeys(DB', type) =
                       AreaKeys(DB, type) \ Listed(last'.arg.keys, type)
                /\ \A raw \in AreaKeys(DB', type) : SameEntry(DB, DB', type, raw)
          /\ (\A i \in DOMAIN last'.arg.keys : ~has(DB, last'.arg.keys[i]))
                => DB' = DB]_vars

\* a remove deleted a present key next to an absent one, the same name in
\* the other area staying
C6_Witness ==
    /\ last.act = "remove"
    /\ last.arg.keys = <<KeyAX, KeyABX>>
    /\ last.changed
    /\ has(DB, KeyAXs)

----------------------------------------------------------------------------
(* merge: inputs, specification and properties                             *)

Strs(q) == [i \in DOMAIN q |-> Str(q[i])]
Nums(q) == [i \in DOMAIN q |-> Num(q[i])]

UserDina ==
    Obj(Field("name", Str("Dina")) @@ Field("tags", Arr(Strs(<<"a", "b">>))) @@
        Field("permissions", SetOf(Strs(<<"read">>))))

\* plain objects a key is initialised with
MergeObjects ==
    { Obj(Field("name", Str("Bob")) @@ Field("tags", Arr(Strs(<<"a", "b">>))) @@
          Field("roles", SetOf(Strs(<<"admin", "user">>)))),
      Obj(Field("user", UserDina) @@ Field("n", Num(1))),
      Obj(Field("scores", MapOf(<<<<Str("math"), Num(5)>>>>)) @@
          Field("data", Typed("Int8Array", Nums(<<1, 2>>)))),
      Obj(Field("tags", Typed("Uint8Array", Nums(<<1, 2>>))) @@
          Field("user", Arr(Strs(<<"a">>)))) }

\* stored values that are not plain objects
MergeNonObjects ==
    { Num(123), Str("dark"), Bool(TRUE), Null, Arr(Nums(<<1>>)), BigInt(5),
      MapOf(<<<<Str("math"), Num(5)>>>>), SetOf(Nums(<<1>>)),
      Typed("Int8Array", Nums(<<1, 2>>)) }

MergePartials ==
    { Obj(Field("tags", Arr(Strs(<<"c">>)))),
      Obj(Field("roles", SetOf(Strs(<<"editor">>))) @@ Field("name", Str("Al"))),
      Obj(Field("user", Obj(Field("tags", Arr(Strs(<<"c">>))) @@
                            Field("permissions", SetOf(Strs(<<"write">>)))))),
      Obj(Field("scores", MapOf(<<<<Str("fr"), Num(4)>>>>)) @@
          Field("data", Typed("Float64Array", Nums(<<9>>)))),
      Obj(Field("n", Num(2)) @@ Field("user", Obj(Field("name", Null)))),
      Obj(Field("data", Arr(Nums(<<7>>))) @@ Field("tags", Arr(<<>>))) }

NextMerge ==
    \/ \E v \in MergeObjects \cup MergeNonObjects : Save(KeyAX, v)
    \/ \E p \in MergePartials : Merge(KeyAX, p)
    \/ Remove(<<KeyAX>>)

SpecMerge == InitEmpty /\ [][NextMerge]_vars

\* C7: merge on a key with no stored value fails with the 'Cannot
\* initialize the object' error and leaves both areas unchanged.
C7_MergeNeverInitializes ==
    [][(last'.act = "merge" /\ ~has(DB, last'.arg.key)) =>
          /\ last'.err = ErrCannotInitialize
          /\ DB' = DB]_vars

\* merge was refused on a key that has no entry
C7_Witness ==
    /\ last.act = "merge"
    /\ ~has(DB, last.arg.key)
    /\ last.err = ErrCannotInitialize

IsPlainObject(v) == v.kind = "obj"

\* C8: merge on a key whose stored value is present but is not a plain
\* object fails with the 'Can only merge into plain objects' error, which
\* differs from the cannot-initialize error, and leaves the stored value
\* unchanged.
C8_MergeRejectsNonObjects ==
    [][(/\ last'.act = "merge"
        /\ has(DB, last'.arg.key)
        /\ ~IsPlainObject(get(DB, last'.arg.key))) =>
          /\ last'.err = ErrNotPlainObject
          /\ ErrNotPlainObject # ErrCannotInitialize
          /\ DB' = DB]_vars

SameCollectionKind(a, b) ==
    a.kind = b.kind /\ a.kind \in {"arr", "map", "set", "typed"}

\* the field-by-field merge as the claim words it: fields the partial does
\* not mention keep their value, plain objects on both sides are merged
\* recursively, collections of the same kind take the incoming value
RECURSIVE MergedAsClaimed(_, _, _)
MergedAsClaimed(old, partial, new) ==
    /\ new.kind = "obj"
    /\ \A f \in DOMAIN old.value \ DOMAIN partial.value :
          f \in DOMAIN new.value /\ new.value[f] = old.value[f]
    /\ \A f \in DOMAIN old.value \cap DOMAIN partial.value :
          /\ f \in DOMAIN new.value
          /\ (IsPlainObject(old.value[f]) /\ IsPlainObject(partial.value[f])) =>
                MergedAsClaimed(old.value[f], partial.value[f], new.value[f])
          /\ SameCollectionKind(old.value[f], partial.value[f]) =>
                new.value[f] = parse(stringify(partial.value[f]))

\* C9: when the stored value of k is a plain object, merge(k, partial)
\* stores the field-by-field merge: plain objects are merged recursively,
\* arrays, maps, sets and numeric arrays are replaced wholesale by the
\* incoming value at any depth, unmentioned fields keep their value.
C9_MergeFieldByField ==
    [][(/\ last'.act = "merge"
        /\ has(DB, last'.arg.key)
        /\ IsPlainObject(get(DB, last'.arg.key))) =>
          /\ last'.err = ErrNone
          /\ MergedAsClaimed(get(DB, last'.arg.key), last'.arg.partial,
                             get(DB', last'.arg.key))]_vars

\* scenario C: tags and permissions of the nested user were replaced, the
\* name kept
C9_Witness ==
    /\ last.act = "merge"
    /\ last.err = ErrNone
    /\ get(DB, KeyAX).kind = "obj"
    /\ "user" \in DOMAIN get(DB, KeyAX).value
    /\ get(DB, KeyAX).value["user"] =
           Obj(Field("name", Str("Dina")) @@ Field("tags", Arr(Strs(<<"c">>))) @@
               Field("permissions", SetOf(Strs(<<"write">>))))

----------------------------------------------------------------------------
(* Codec round trip: inputs, specification and properties                  *)

BigInts(q) == [i \in DOMAIN q |-> BigInt(q[i])]

Wrapper(tag, payload) == Obj(Field("__type", tag) @@ Field("value", payload))

NestedValue ==
    Obj(Field("big", Typed("BigInt64Array", BigInts(<<-5, 2000000000>>))) @@
        Field("m", MapOf(<<<<Str("k"), SetOf(<<BigInt(1), MapOf(<<>>)>>)>>,
                           <<ObjA(1), Arr(<<Null, SetOf(<<>>)>>)>>>>)))

\* values of the taxonomy that hold no non-finite number and no plain
\* object with both wrapper fields
PlainValues ==
    { Null, Bool(TRUE), Bool(FALSE), Num(0), Num(42), Num(-1), Str("dark"),
      Str(""), BigInt(5), BigInt(-7),
      Arr(<<>>), Arr(Nums(<<1, 2>>)),
      Arr(<<Num(1), Str("a"), Null, Arr(Nums(<<2>>))>>),
      Obj(EmptyFields), ObjA(1), Obj(Field("user", UserDina)),
      Obj(Field("__type", Str("map"))), Obj(Field("value", Num(1))),
      MapOf(<<>>), MapOf(<<<<Str("math"), Num(5)>>, <<Str("eng"), Num(4)>>>>),
      SetOf(<<>>), SetOf(Nums(<<1, 2>>)), SetOf(<<MapOf(<<<<Num(1), Str("a")>>>>)>>),
      Typed("Int8Array", Nums(<<-1, 2>>)), Typed("Uint8Array", Nums(<<255>>)),
      Typed("Uint8ClampedArray", Nums(<<0, 255>>)),
      Typed("Int16Array", Nums(<<-300>>)), Typed("Uint16Array", Nums(<<65535>>)),
      Typed("Int32Array", Nums(<<-70000>>)), Typed("Uint32Array", Nums(<<70000>>)),
      Typed("Float32Array", Nums(<<1>>)), Typed("Float64Array", Nums(<<1, 2>>)),
      Typed("BigInt64Array", BigInts(<<-5>>)), Typed("BigUint64Array", BigInts(<<5>>)),
      Typed("Int8Array", <<>>),
      NestedValue }

\* values of the taxonomy with a non-finite number or a plain object that
\* has both '__type' and 'value'
EdgeValues ==
    { NaN, Arr(<<NaN>>), Typed("Float64Array", <<Num(1), NaN>>),
      Wrapper(Str("x"), Num(1)),
      Wrapper(Str("set"), Arr(Nums(<<1, 1>>))),
      Wrapper(Num(1), Null),
      Arr(<<Wrapper(Str("bigint"), Str("dark"))>>),
      Obj(Field("o", Wrapper(Str("map"), Null))) }

CodecValues == PlainValues \cup EdgeValues

CodecKeys == {KeyAX, KeyAXs}

InitCodec ==
    /\ localStorage = <<>>
    /\ sessionStorage = <<>>
    /\ last = Idle
    /\ recent = [k \in Keys |-> NoSave]
    /\ listeners = <<>>
    /\ subs = <<>>
    /\ calls = <<>>
    /\ cv \in CodecValues
    /\ inflight = NoMerge

NextCodec ==
    \/ \E k \in CodecKeys : Save(k, cv)
    \/ \E k \in CodecKeys : Remove(<<k>>)

SpecCodec == InitCodec /\ [][NextCodec]_vars

RECURSIVE HasNonFinite(_), HasWrapperShape(_)

Children(v) ==
    CASE v.kind \in {"arr", "set", "typed"} -> Range(v.value)
      [] v.kind = "obj" -> {v.value[f] : f \in DOMAIN v.value}
      [] v.kind = "map" -> UNION {{v.value[i][1], v.value[i][2]} : i \in DOMAIN v.value}
      [] OTHER -> {}

\* a NaN or an infinity somewhere in v, element of a numeric array included
HasNonFinite(v) ==
    v.kind = "nonfinite" \/ \E c \in Children(v) : HasNonFinite(c)

\* a plain object with both a '__type' and a 'value' field somewhere in v
HasWrapperShape(v) ==
    \/ v.kind = "obj" /\ {"__type", "value"} \subseteq DOMAIN v.value
    \/ \E c \in Children(v) : HasWrapperShape(c)

\* C2 as stated: save(k, v) followed by get(k) returns a value deep-equal to
\* v with the same runtime kind at every level, for every value of the
\* taxonomy.
C2_RoundTripEveryValue ==
    last.act = "save" => get(DB, last.arg.key) = last.arg.value

\* C2: save(k, v) followed by get(k) returns a value deep-equal to v with
\* the same runtime kind at every level, for every value of the taxonomy
\* that holds no non-finite number and no plain object with both a '__type'
\* and a 'value' field.
C2_RoundTrip ==
    (/\ last.act = "save"
     /\ ~HasNonFinite(last.arg.value)
     /\ ~HasWrapperShape(last.arg.value)) =>
        get(DB, last.arg.key) = last.arg.value

\* the nested value (a 64-bit numeric array, a map holding a set of big
\* integers) was saved and read back as it was
C2_Witness ==
    /\ last.act = "save"
    /\ last.arg.value = NestedValue
    /\ get(DB, last.arg.key) = NestedValue

\* C27: a plain object that has both a '__type' and a 'value' field, at
\* the top level or nested anywhere in a saved value, is decoded as a
\* tagged wrapper, so get does not return a value deep-equal to what was
\* saved.
C27_TagCollision ==
    (last.act = "save" /\ HasWrapperShape(last.arg.value)) =>
        get(DB, last.arg.key) # last.arg.value

\* the plain object {__type: 'set', value: [1, 1]} comes back as a set
\* with one element
C27_ReadAsSet ==
    /\ last.act = "save"
    /\ last.arg.value = Wrapper(Str("set"), Arr(Nums(<<1, 1>>)))
    /\ get(DB, last.arg.key) = SetOf(Nums(<<1>>))

\* the nested object {o: {__type: 'map', value: null}} comes back with an
\* empty map in its place
C27_NestedReadAsMap ==
    /\ last.act = "save"
    /\ last.arg.value = Obj(Field("o", Wrapper(Str("map"), Null)))
    /\ get(DB, last.arg.key) = Obj(Field("o", MapOf(<<>>)))

----------------------------------------------------------------------------
(* Change observation: inputs, specification and properties                *)

\* most onChange calls made
MaxListeners == 2

\* a key with the library prefix that is not of the form namespace:name
MalformedKey == PREFIX \o <<"z">>

\* the empty key stands for the null key of a Storage.clear() event
EventKeys == RawKeys \cup {<<>>, MalformedKey}

Events ==
    [key : EventKeys,
     newValue : {NoItem, stringify(Str("dark"))},
     oldValue : {NoItem, stringify(ObjA(1))},
     storageArea : StoreTypes]

Targets ==
    {NoTarget, EmptyTarget,
     NsTarget(<<NsA>>), NsTarget(<<NsAB, NsA>>),
     KeyTarget(<<KeyAX>>), KeyTarget(<<KeyABX, KeyANL>>)}

UsedIds == {listeners[i].id : i \in DOMAIN listeners}

\* onChange: window.addEventListener('storage', handler); the call is
\* identified by its position among the onChange calls
OnChange(target) ==
    /\ Len(subs) < MaxListeners
    /\ listeners' =
           Append(listeners,
                  [id |-> Len(subs) + 1,
                   target |-> target,
                   filters |-> onChangeFilters(target)])
    /\ subs' = Append(subs, [target |-> target,
                             filters |-> onChangeFilters(target),
                             unsubscribed |-> FALSE])
    /\ last' = [act |-> "onChange", arg |-> target, changed |-> FALSE, err |-> ErrNone]
    /\ calls' = <<>>
    /\ UNCHANGED <<localStorage, sessionStorage, recent, cv, inflight>>

\* the function returned by the onChange call id is invoked
Unsubscribe(id) ==
    /\ id \in DOMAIN subs
    /\ listeners' = removeEventListener(listeners, id)
    /\ subs' = [subs EXCEPT ![id].unsubscribed = TRUE]
    /\ last' = [act |-> "unsubscribe", arg |-> [id |-> id],
                changed |-> FALSE, err |-> ErrNone]
    /\ calls' = <<>>
    /\ UNCHANGED <<localStorage, sessionStorage, recent, cv, inflight>>

\* the host delivers a storage event to this window
DispatchEvent(e) ==
    /\ calls' = dispatch(listeners, e)
    /\ last' = [act |-> "event", arg |-> e, changed |-> FALSE, err |-> ErrNone]
    /\ UNCHANGED <<localStorage, sessionStorage, recent, listeners, subs, cv, inflight>>

NextEvents ==
    \/ \E t \in Targets : OnChange(t)
    \/ \E e \in Events : DispatchEvent(e)
    \/ \E id \in 1..MaxListeners : Unsubscribe(id)

SpecEvents == InitEmpty /\ [][NextEvents]_vars

Invoked(id) == \E i \in DOMAIN calls : calls[i].id = id

\* raw is the wire key of a key createKey accepts in namespace ns
BelongsToNamespace(raw, ns) ==
    LET p == PREFIX \o ns \o <<COLON>> IN
    /\ startsWith(raw, p)
    /\ Len(raw) > Len(p)
    /\ COLON \notin Range(SubSeq(raw, Len(p) + 1, Len(raw)))

\* C10: a subscription made with a non-empty list of namespaces has its
\* callback invoked for an event if and only if the event's key is
\* library-owned and belongs to one of the listed namespaces.
C10_NamespaceFilter ==
    last.act = "event" =>
        \A i \in DOMAIN listeners :
            listeners[i].target.form = "ns" =>
                (Invoked(listeners[i].id) <=>
                    /\ LibraryOwned(last.arg.key)
                    /\ \E n \in Range(listeners[i].target.namespaces) :
                          BelongsToNamespace(last.arg.key, n))

\* the storage area an event came from, as the handler names it
EventArea(e) == IF e.storageArea = "local" THEN "local" ELSE "session"

\* C11: a subscription made with a non-empty list of StoreKeys has its
\* callback invoked only for events on one of the listed keys, a key being
\* the triple of namespace, name and area: an event on the same namespace
\* and name in the other area never invokes it.
C11_KeyFilter ==
    last.act = "event" =>
        \A i \in DOMAIN listeners :
            (listeners[i].target.form = "keys" /\ Invoked(listeners[i].id)) =>
                \E k \in Range(listeners[i].target.storeKeys) :
                    /\ getFullName(k.ns, k.name) = last.arg.key
                    /\ k.storeType = EventArea(last.arg)

\* C12: a subscription made with an empty list never has its callback
\* invoked, whatever event is delivered, and its unsubscribe function
\* takes its handler off the window.
C12_EmptyTargetNeverFires ==
    /\ last.act = "event" =>
          \A i \in DOMAIN listeners :
              listeners[i].target.form = "empty" => ~Invoked(listeners[i].id)
    /\ (last.act = "unsubscribe" /\ subs[last.arg.id].target.form = "empty") =>
          last.arg.id \notin UsedIds

\* an event on a library key reached a subscription without target while
\* a subscription with an empty list was registered
C12_Witness ==
    /\ last.act = "event"
    /\ last.arg.key = getFullName(NsA, NameX)
    /\ \E i \in DOMAIN listeners : listeners[i].target.form = "empty"
    /\ \E i \in DOMAIN listeners :
          listeners[i].target.form = "none" /\ Invoked(listeners[i].id)

\* C13: a subscription made without target has its callback invoked for
\* every event whose key carries the library prefix, in either area, and
\* for no event whose key is absent or foreign.
C13_NoTargetObservesAll ==
    last.act = "event" =>
        \A i \in DOMAIN listeners :
            listeners[i].target.form = "none" =>
                (Invoked(listeners[i].id) <=> LibraryOwned(last.arg.key))

\* C14: once the unsubscribe function of an onChange call has been
\* invoked, the callback of that call is not invoked for any later event;
\* a second invocation of unsubscribe changes nothing; every other
\* subscription is invoked for exactly the events its handler lets pass.
C14_Unsubscribe ==
    [][/\ last'.act = "event" =>
             \A id \in DOMAIN subs' :
                 IF subs'[id].unsubscribed
                 THEN ~Invoked(id)'
                 ELSE Invoked(id)' <=> handlerPasses(subs'[id].filters, last'.arg)
       /\ (last'.act = "unsubscribe" /\ subs[last'.arg.id].unsubscribed) =>
             listeners' = listeners]_vars

\* an event that the handler of an unsubscribed call would let pass was
\* delivered and invoked the callback of a call made before it
C14_Witness ==
    /\ last.act = "event"
    /\ Len(subs) = 2
    /\ subs[2].unsubscribed
    /\ handlerPasses(subs[2].filters, last.arg)
    /\ ~subs[1].unsubscribed
    /\ Invoked(1)
    /\ ~Invoked(2)

----------------------------------------------------------------------------
(* Mutations and subscriptions in one context                              *)

ContextKeys == {KeyAX, KeyAXs}

ContextTargets == {NoTarget, NsTarget(<<NsA>>), KeyTarget(<<KeyAX>>)}

\* events of changes made in the other context
ContextEvents ==
    [key : {getFullName(NsA, NameX)},
     newValue : {NoItem, stringify(Str("dark"))},
     oldValue : {NoItem},
     storageArea : StoreTypes]

Mutations == {"save", "saveMany", "merge", "remove", "clear"}

NextContexts ==
    \/ \E t \in ContextTargets : OnChange(t)
    \/ \E k \in ContextKeys, v \in StoreValues : Save(k, v)
    \/ \E k \in ContextKeys, q \in StorePartials : Merge(k, q)
    \/ \E ks \in SeqsUpTo(ContextKeys, MaxBatch) : Remove(ks)
    \/ Clear(NoArg)
    \/ \E e \in ContextEvents : DispatchEvent(e)

SpecContexts == InitEmpty /\ [][NextContexts]_vars

\* C15: a save, merge, remove or clear made in this context invokes no
\* callback registered in this context; the host delivers the events of
\* the change to other contexts only.
C15_NoSelfNotification ==
    [][last'.act \in Mutations =>
          /\ calls' = <<>>
          /\ \A d \in hostBroadcast("this", DB, DB') : d.to # "this"
          /\ last'.changed =>
                \E d \in hostBroadcast("this", DB, DB') : d.to = "other"]_vars

\* a save changed the key that a subscription of this context observes,
\* and the other context is sent the event of that change
C15_Witness ==
    /\ last.act = "save"
    /\ last.changed
    /\ last.arg.key = KeyAX
    /\ \E i \in DOMAIN listeners : listeners[i].target = KeyTarget(<<KeyAX>>)
    /\ calls = <<>>

----------------------------------------------------------------------------
(* createKey: inputs, specification and properties                         *)

\* longest namespace and name handed to createKey
MaxKeyLen == 2

KeyChars == {"a", ":", "\n"}
KeyStrings == SeqsUpTo(KeyChars, MaxKeyLen)

\* the third argument of createKey, possibly left out
AreaArgs == {"omitted"} \cup StoreTypes

NoKey == [kind |-> "nokey"]

\* a createKey call: a key is returned or an error is thrown
CreateKey(ns, name, area) ==
    LET r == IF area = "omitted" THEN createKeyDefault(ns, name)
             ELSE createKey(ns, name, area)
        thrown == "err" \in DOMAIN r
    IN /\ last' = [act |-> "createKey",
                   arg |-> [ns |-> ns, name |-> name, area |-> area],
                   changed |-> FALSE,
                   err |-> IF thrown THEN r.err ELSE ErrNone,
                   result |-> IF thrown THEN NoKey ELSE r]
       /\ UNCHANGED <<localStorage, sessionStorage, recent, listeners, subs, calls, cv, inflight>>

\* the wire key of a key that createKey returned is parsed back
ParseStoreKey(key) ==
    /\ last' = [act |-> "parseStoreKey", arg |-> [key |-> key],
                changed |-> FALSE, err |-> ErrNone,
                result |-> parseStoreKey(getFullName(key.ns, key.name),
                                         key.storeType)]
    /\ UNCHANGED <<localStorage, sessionStorage, recent, listeners, subs, calls, cv, inflight>>

NextKeys ==
    \/ \E ns \in KeyStrings, name \in KeyStrings, area \in AreaArgs :
          CreateKey(ns, name, area)
    \/ last.act = "createKey" /\ last.err = ErrNone /\ ParseStoreKey(last.result)

SpecKeys == InitEmpty /\ [][NextKeys]_vars

\* C16: createKey throws and returns no key whenever the namespace or the
\* name is empty or contains ':'; otherwise it returns a key with exactly
\* the given namespace and name, in area 'local' when the area is left out.
C16_CreateKeyValidation ==
    last.act = "createKey" =>
        IF \/ last.arg.ns = <<>> \/ last.arg.name = <<>>
           \/ COLON \in Range(last.arg.ns) \/ COLON \in Range(last.arg.name)
        THEN last.err # ErrNone /\ last.result = NoKey
        ELSE /\ last.err = ErrNone
             /\ last.result =
                    [ns |-> last.arg.ns, name |-> last.arg.name,
                     storeType |-> IF last.arg.area = "omitted" THEN "local"
                                   ELSE last.arg.area]

\* createKey was called with an empty name and no area, and threw
C16_Witness ==
    /\ last.act = "createKey"
    /\ last.arg = [ns |-> <<"a">>, name |-> <<>>, area |-> "omitted"]
    /\ last.err # ErrNone

----------------------------------------------------------------------------
(* Enumeration: getAll and size                                            *)

\* the arguments getAll and size are called with
QueryArgs == {NoArg} \cup {Given(l) : l \in SeqsUpTo(Namespaces, MaxBatch)}

\* the keys made by createKey that have an entry in their area
StoredKeys(db) == {k \in Keys : has(db, k)}

\* the entries the stored keys covered by the argument should yield
ExpectedEntries(db, a) ==
    IF a.given /\ a.list = <<>> THEN {}
    ELSE {[key |-> k, value |-> get(db, k), storageType |-> k.storeType] :
             k \in {j \in StoredKeys(db) : Covers(a, j)}}

\* C17: getAll([]) is empty; getAll(N) holds exactly one entry per stored
\* library key whose namespace is in N; getAll() holds exactly one entry
\* per stored library key of both areas and none for a foreign key; each
\* entry carries the namespace, name and area of its key and the decoded
\* value.
C17_GetAllFiltering ==
    \A a \in QueryArgs :
        /\ Range(getAll(DB, a)) = ExpectedEntries(DB, a)
        /\ Len(getAll(DB, a)) = Cardinality(ExpectedEntries(DB, a))

\* the raw keys of both areas that carry the library prefix, per area
LibraryKeyCount(db, a) ==
    Cardinality({<<type, raw>> \in StoreTypes \X RawKeys :
                    /\ raw \in AreaKeys(db, type)
                    /\ LibraryOwned(raw)
                    /\ a.given => \E n \in Range(a.list) :
                                      BelongsToNamespace(raw, n)})

\* C18: size() is the number of library-owned keys stored in local plus
\* session storage, whatever foreign keys the areas hold; size(N) is the
\* number of those keys whose namespace is in N; size([]) is 0.
C18_SizeCountsLibraryKeys ==
    \A a \in QueryArgs : size(DB, a) = LibraryKeyCount(DB, a)

----------------------------------------------------------------------------
(* has: inputs, specification and properties                               *)

PresenceKeys == {KeyAX, KeyAXs, KeyABX}

\* null, and a string
PresenceValues == {Null, Str("dark")}

\* the local area starts empty or holds, under a wire key of the library,
\* a text written without encoding
InitPresence ==
    /\ localStorage \in {<<>>, <<[key |-> getFullName(NsA, NameX),
                                   value |-> Raw("dark")]>>}
    /\ sessionStorage = <<>>
    /\ InitCommon

\* has(key)
Has(key) ==
    /\ last' = [act |-> "has", arg |-> [key |-> key], changed |-> FALSE,
                err |-> ErrNone, result |-> has(DB, key)]
    /\ UNCHANGED <<localStorage, sessionStorage, recent, listeners, subs, calls, cv, inflight>>

\* has(keys)
HasMany(keys) ==
    /\ last' = [act |-> "hasMany", arg |-> [keys |-> keys], changed |-> FALSE,
                err |-> ErrNone, result |-> hasMany(DB, keys)]
    /\ UNCHANGED <<localStorage, sessionStorage, recent, listeners, subs, calls, cv, inflight>>

NextPresence ==
    \/ \E k \in PresenceKeys, v \in PresenceValues : Save(k, v)
    \/ \E ks \in SeqsUpTo(PresenceKeys, MaxBatch) : Remove(ks)
    \/ \E k \in PresenceKeys : Has(k)
    \/ \E ks \in SeqsUpTo(PresenceKeys, MaxBatch) : HasMany(ks)

SpecPresence == InitPresence /\ [][NextPresence]_vars

\* an entry exists under the wire key of k in the area of k
EntryExists(db, k) == getFullName(k.ns, k.name) \in AreaKeys(db, k.storeType)

----------------------------------------------------------------------------
(* saveMany when a save fails                                              *)

ErrQuota == "QuotaExceededError"

\* Storage.setItem throws when the pair is new and the area is full
setItemThrows(storage, key) ==
    getItem(storage, key) = NoItem /\ Len(storage) >= MaxEntries

\* save with its failure: the areas after the call and the error thrown
saveOutcome(db, key, value) ==
    IF setItemThrows(getStorage(db, key.storeType), getFullName(key.ns, key.name))
    THEN [db |-> db, err |-> ErrQuota, done |-> 0]
    ELSE [db |-> save(db, key, value), err |-> ErrNone, done |-> 1]

\* the first pair of entries whose save throws, 0 when none does
RECURSIVE firstFailure(_, _, _)
firstFailure(db, entries, i) ==
    IF i > Len(entries) THEN 0
    ELSE IF saveOutcome(db, entries[i][1], entries[i][2]).err # ErrNone THEN i
         ELSE firstFailure(save(db, entries[i][1], entries[i][2]), entries, i + 1)

\* saveMany that writes nothing when one of its saves would throw
saveManyOutcome_atomic(db, entries) ==
    IF firstFailure(db, entries, 1) = 0
    THEN [db |-> saveMany(db, entries), err |-> ErrNone, done |-> Len(entries)]
    ELSE [db |-> db, err |-> ErrQuota, done |-> 0]

\* saveMany with the failure of a save: the loop ends at the first save
\* that throws, the error leaves saveMany, earlier saves stay
RECURSIVE saveManyLoop(_, _, _)
saveManyLoop(db, entries, done) ==
    IF entries = <<>> THEN [db |-> db, err |-> ErrNone, done |-> done]
    ELSE LET r == saveOutcome(db, Head(entries)[1], Head(entries)[2])
         IN IF r.err # ErrNone THEN [db |-> db, err |-> r.err, done |-> done]
            ELSE saveManyLoop(r.db, Tail(entries), done + 1)

saveManyOutcome(db, entries) == saveManyLoop(db, entries, 0)

BatchKeys == {KeyAX, KeyABX, KeyANL}

\* the pairs handed to saveMany: one key comes with two values
BatchPairs ==
    {<<KeyAX, Str("dark")>>, <<KeyAX, ObjA(1)>>,
     <<KeyABX, Str("dark")>>, <<KeyANL, ObjA(1)>>}

\* saveMany(entries) on areas that may be full
SaveManyOutcome(entries) ==
    LET r == saveManyOutcome(DB, entries) IN
    /\ Step(r.db, "saveManyOutcome", [entries |-> entries], r.err)
    /\ recent' = recentAfterSaves(recent, SubSeq(entries, 1, r.done))

NextBatch ==
    \/ \E es \in SeqsUpTo(BatchPairs, MaxBatch) : SaveManyOutcome(es)
    \/ \E ks \in SeqsUpTo(BatchKeys, MaxBatch) : Remove(ks)

SpecBatch == Init /\ [][NextBatch]_vars

\* the save of the i-th pair of es throws once the pairs before it are saved
FailsAt(db, es, i) ==
    LET before == saveMany(db, SubSeq(es, 1, i - 1))
        k == es[i][1]
    IN /\ getFullName(k.ns, k.name) \notin AreaKeys(before, k.storeType)
       /\ Len(getStorage(before, k.storeType)) >= MaxEntries

\* the value of the last pair of es for key k
LastValueFor(es, k) ==
    es[CHOOSE i \in DOMAIN es :
          es[i][1] = k /\ \A j \in DOMAIN es : es[j][1] = k => j <= i][2]

\* C20: saveMany saves its pairs one by one in list order; when the save
\* of the i-th pair fails, the pairs before it stay written and the pairs
\* after it are not written; when none fails, every listed key holds the
\* value of its last pair and every other entry is unchanged.
C20_SaveManyNotAtomic ==
    [][last'.act = "saveManyOutcome" =>
          LET es == last'.arg.entries IN
          IF last'.err # ErrNone
          THEN \E i \in DOMAIN es :
                  /\ FailsAt(DB, es, i)
                  /\ \A j \in 1..(i - 1) : ~FailsAt(DB, es, j)
                  /\ DB' = saveMany(DB, SubSeq(es, 1, i - 1))
          ELSE /\ \A i \in DOMAIN es : ~FailsAt(DB, es, i)
               /\ \A i \in DOMAIN es :
                     get(DB', es[i][1]) = LastValueFor(es, es[i][1])
               /\ \A type \in StoreTypes :
                     \A raw \in AreaKeys(DB, type) \cup AreaKeys(DB', type) :
                         raw \notin Listed([i \in DOMAIN es |-> es[i][1]], type)
                             => SameEntry(DB, DB', type, raw)]_vars

\* a saveMany of two pairs wrote its first pair and failed at the second
C20_Witness ==
    /\ last.act = "saveManyOutcome"
    /\ Len(last.arg.entries) = 2
    /\ last.err = ErrQuota
    /\ last.changed
    /\ has(DB, last.arg.entries[1][1])
    /\ ~has(DB, last.arg.entries[2][1])

----------------------------------------------------------------------------
(* Decoding what the areas hold: inputs, specification and properties      *)

ErrDecode == "Error"

DecodeKeys == {KeyAX, KeyANL}

\* a wrapper with a tag the reviver does not know
UnknownTagWire == Wrapper(Str("date"), Num(1))

\* a typedArray wrapper naming no constructor of TYPED_ARRAY_CONSTRUCTORS
UnknownSubtypeWire ==
    Obj(Field("__type", Str("typedArray")) @@ Field("value", Arr(Nums(<<1>>))) @@
        Field("subtype", Str("Float16Array")))

\* texts found in an area: written by save, written without encoding, or
\* written by other code under a key of the library
WireTexts ==
    { stringify(Str("dark")), stringify(SetOf(Nums(<<1>>))),
      Raw("dark"),
      UnknownTagWire, UnknownSubtypeWire,
      Obj(Field("o", Arr(<<UnknownTagWire>>))) }

\* other code stores the text w under the wire key of key
WriteWire(key, w) ==
    /\ Step(WithStorage(DB, key.storeType,
                        setItem(getStorage(DB, key.storeType),
                                getFullName(key.ns, key.name), w)),
            "writeWire", [key |-> key, wire |-> w], ErrNone)
    /\ UNCHANGED recent

\* get(key): the value returned, or the error that leaves the call
Get(key) ==
    LET r == get(DB, key) IN
    /\ last' = [act |-> "get", arg |-> [key |-> key], changed |-> FALSE,
                err |-> IF r = Throw THEN ErrDecode ELSE ErrNone,
                result |-> r]
    /\ UNCHANGED <<localStorage, sessionStorage, recent, listeners, subs, calls, cv, inflight>>

\* getAll(): the entries returned, or the error that leaves the call
GetAll(ns) ==
    LET r == getAll(DB, ns) IN
    /\ last' = [act |-> "getAll", arg |-> ns, changed |-> FALSE,
                err |-> IF \E i \in DOMAIN r : r[i].value = Throw
                        THEN ErrDecode ELSE ErrNone,
                result |-> r]
    /\ UNCHANGED <<localStorage, sessionStorage, recent, listeners, subs, calls, cv, inflight>>

DecodeEvents ==
    [key : {getFullName(NsA, NameX)},
     newValue : WireTexts,
     oldValue : {NoItem},
     storageArea : {"local"}]

NextDecode ==
    \/ \E k \in DecodeKeys, w \in WireTexts : WriteWire(k, w)
    \/ \E k \in DecodeKeys : Save(k, Undefined)
    \/ \E k \in DecodeKeys : Get(k)
    \/ GetAll(NoArg)
    \/ OnChange(NoTarget)
    \/ \E e \in DecodeEvents : DispatchEvent(e)

SpecDecode == InitEmpty /\ [][NextDecode]_vars

RECURSIVE HasUnknownWrapper(_)
\* the JSON tree w holds, at some level, a wrapper with an unknown tag or a
\* typedArray wrapper with an unknown subtype
HasUnknownWrapper(w) ==
    \/ /\ w.kind = "obj"
       /\ {"__type", "value"} \subseteq DOMAIN w.value
       /\ \/ w.value["__type"] \notin
                {Str("bigint"), Str("map"), Str("set"), Str("typedArray")}
          \/ /\ w.value["__type"] = Str("typedArray")
             /\ \/ "subtype" \notin DOMAIN w.value
                \/ w.value["subtype"] \notin
                       {Str(c) : c \in TYPED_ARRAY_CONSTRUCTORS}
    \/ \E c \in Children(w) : HasUnknownWrapper(c)

\* the text stored for key, NoItem when there is none
StoredWire(db, key) ==
    getItem(getStorage(db, key.storeType), getFullName(key.ns, key.name))

\* C21: decoding a stored text that holds a wrapper with an unknown tag, or
\* a typedArray wrapper with an unknown subtype, is a hard failure: get,
\* getAll and the change handler raise an error instead of giving a value.
C21_UnknownTagIsHardFailure ==
    /\ (last.act = "get" /\ StoredWire(DB, last.arg.key) # NoItem
          /\ HasUnknownWrapper(StoredWire(DB, last.arg.key)))
          => last.err # ErrNone
    /\ (last.act = "getAll"
          /\ \E k \in DecodeKeys : /\ StoredWire(DB, k) # NoItem
                                   /\ HasUnknownWrapper(StoredWire(DB, k)))
          => last.err # ErrNone
    /\ (last.act = "event" /\ HasUnknownWrapper(last.arg.newValue))
          => calls = <<>>

\* a text that is no JSON text
NotJson(w) == w.kind = "raw"

\* C22: when the text stored under a library-owned key is no JSON text,
\* get and getAll return that text as the value, without an error and
\* without dropping the entry.
C22_DecodeFallback ==
    /\ (last.act = "get" /\ StoredWire(DB, last.arg.key) # NoItem
          /\ NotJson(StoredWire(DB, last.arg.key)))
          => /\ last.err = ErrNone
             /\ last.result = Str(StoredWire(DB, last.arg.key).value)
    /\ last.act = "getAll" =>
          \A k \in DecodeKeys :
              (StoredWire(DB, k) # NoItem /\ NotJson(StoredWire(DB, k))) =>
                  /\ last.err = ErrNone
                  /\ \E i \in DOMAIN last.result :
                        /\ last.result[i].key = k
                        /\ last.result[i].value = Str(StoredWire(DB, k).value)

----------------------------------------------------------------------------
(* Wire keys                                                               *)

\* C23: for every non-empty namespace and name without ':', whatever other
\* characters they hold (line breaks included), parsing the wire key
\* derived from them yields exactly that namespace and that name.
C23_WireKeyRoundTrip ==
    last.act = "parseStoreKey" =>
        /\ last.result # Null
        /\ last.result.ns = last.arg.key.ns
        /\ last.result.name = last.arg.key.name

\* C24: undefined is coerced to null when stored: after save(k, undefined),
\* get(k) returns null.
C24_UndefinedStoredAsNull ==
    (last.act = "save" /\ last.arg.value = Undefined) =>
        get(DB, last.arg.key) = Null

----------------------------------------------------------------------------
(* merge between its read and its write                                    *)

\* the first half of merge: the value read and the error thrown, if any
mergeRead(db, key) ==
    LET storedValue == getItem(getStorage(db, key.storeType),
                               getFullName(key.ns, key.name))
        current == IF storedValue # NoItem THEN parse(storedValue) ELSE Null
    IN [current |-> current,
        err |-> IF current = Null THEN ErrCannotInitialize
                ELSE IF ~IsObjectType(current) \/ current.kind = "arr"
                THEN ErrNotPlainObject
                ELSE ErrNone]

\* a write-back that merges into the value stored at the time of the write
mergeWrite_rereads(db, key, current, partial) ==
    save(db, key, deepMerge(get(db, key), partial))

\* the second half of merge: the merge of the value read is stored
mergeWrite(db, key, current, partial) ==
    WithStorage(db, key.storeType,
                setItem(getStorage(db, key.storeType),
                        getFullName(key.ns, key.name),
                        stringify(deepMerge(current, partial))))

RaceKeys == {KeyAX, KeyAXs}

RaceStored == Obj(Field("a", Num(1)) @@ Field("b", Num(1)))
\* what the other context writes
RaceOther == Obj(Field("a", Num(1)) @@ Field("b", Num(9)))
RaceValues == {RaceStored, RaceOther, Str("dark")}
RacePartial == Obj(Field("a", Num(2)))

\* merge reads its key; an error ends the call here
MergeRead(key, partial) ==
    LET r == mergeRead(DB, key) IN
    /\ inflight = NoMerge
    /\ inflight' = IF r.err # ErrNone THEN NoMerge
                   ELSE [key |-> key, partial |-> partial, current |-> r.current,
                         stale |-> FALSE, lost |-> Null]
    /\ last' = [act |-> "mergeRead", arg |-> [key |-> key, partial |-> partial],
                changed |-> FALSE, err |-> r.err]
    /\ calls' = <<>>
    /\ UNCHANGED <<localStorage, sessionStorage, recent, listeners, subs, cv>>

\* another context stores value under key, possibly while a merge of this
\* context is between its read and its write
OtherWrite(key, value) ==
    LET db == save(DB, key, value) IN
    /\ Fits(db)
    /\ localStorage' = db.local
    /\ sessionStorage' = db.session
    /\ inflight' = IF inflight # NoMerge /\ inflight.key = key
                   THEN [inflight EXCEPT !.stale = TRUE, !.lost = value]
                   ELSE inflight
    /\ last' = [act |-> "otherWrite", arg |-> [key |-> key, value |-> value],
                changed |-> (db # DB), err |-> ErrNone]
    /\ calls' = <<>>
    /\ UNCHANGED <<recent, listeners, subs, cv>>

\* merge writes back
MergeWrite ==
    /\ inflight # NoMerge
    /\ LET db == mergeWrite(DB, inflight.key, inflight.current, inflight.partial) IN
         /\ localStorage' = db.local
         /\ sessionStorage' = db.session
         /\ last' = [act |-> "mergeWrite", arg |-> inflight,
                     changed |-> (db # DB), err |-> ErrNone]
    /\ inflight' = NoMerge
    /\ calls' = <<>>
    /\ UNCHANGED <<recent, listeners, subs, cv>>

NextRace ==
    \/ \E k \in RaceKeys : MergeRead(k, RacePartial)
    \/ \E k \in RaceKeys, v \in RaceValues : OtherWrite(k, v)
    \/ MergeWrite
    \/ \E k \in RaceKeys : inflight = NoMerge /\ Remove(<<k>>)

SpecRace == InitEmpty /\ [][NextRace]_vars

\* C25: merge is not atomic with respect to other contexts: its write
\* stores the merge of the value it read, so a value another context wrote
\* to the key between the read and the write is overwritten, and no error
\* is raised.
C25_MergeLostUpdate ==
    last.act = "mergeWrite" =>
        /\ last.err = ErrNone
        /\ get(DB, last.arg.key) = deepMerge(last.arg.current, last.arg.partial)
        /\ last.arg.stale =>
              StoredWire(DB, last.arg.key) # stringify(last.arg.lost)

\* the other context set field b to 9 after the read; after the write the
\* key holds b = 1 again
C25_Witness ==
    /\ last.act = "mergeWrite"
    /\ last.arg.stale
    /\ last.arg.lost = RaceOther
    /\ last.arg.current = RaceStored
    /\ get(DB, last.arg.key) = Obj(Field("a", Num(2)) @@ Field("b", Num(1)))

----------------------------------------------------------------------------
(* What the callback receives                                              *)

\* the StoreKeys whose wire key is raw
KeysOfWire(raw) == {k \in Keys : getFullName(k.ns, k.name) = raw}

\* a raw event value as the callback is to see it
Delivered(raw) == IF raw = NoItem THEN Null ELSE parse(raw)

\* the call made for subscription id carries the key named ns/name in the
\* area of event e, and e's decoded values
ReceivedFor(id, ns, name, e) ==
    \E i \in DOMAIN calls :
        /\ calls[i].id = id
        /\ calls[i].key # [kind |-> "null"]
        /\ calls[i].key.ns = ns
        /\ calls[i].key.name = name
        /\ calls[i].key.storeType = EventArea(e)
        /\ calls[i].storeType = EventArea(e)
        /\ calls[i].newValue = Delivered(e.newValue)
        /\ calls[i].oldValue = Delivered(e.oldValue)

\* C26: for every event that passes a subscription's filter, the callback
\* receives a StoreKey with the namespace and name of the event's wire key
\* and the area the event was reported against, together with the decoded
\* new and old values, a null raw value being delivered as null.
C26_CallbackArguments ==
    last.act = "event" =>
        \A i \in DOMAIN listeners :
            inlineFilter(listeners[i].filters, last.arg) =>
                \A k \in KeysOfWire(last.arg.key) :
                    ReceivedFor(listeners[i].id, k.ns, k.name, last.arg)

\* the same for the wire keys without a line terminator in the name
C26_CallbackArgumentsOneLine ==
    last.act = "event" =>
        \A i \in DOMAIN listeners :
            inlineFilter(listeners[i].filters, last.arg) =>
                \A k \in KeysOfWire(last.arg.key) :
                    (Range(k.name) \cap LineTerminators = {}) =>
                        ReceivedFor(listeners[i].id, k.ns, k.name, last.arg)

\* a session event with no old value is delivered with a session key and null
C26_Delivered ==
    /\ last.act = "event"
    /\ last.arg.storageArea = "session"
    /\ last.arg.oldValue = NoItem
    /\ last.arg.newValue # NoItem
    /\ \E i \in DOMAIN listeners :
          ReceivedFor(listeners[i].id, KeyAX.ns, KeyAX.name, last.arg)

----------------------------------------------------------------------------
(* Enumeration against point reads                                         *)

\* the positions of getAll() whose entry is for key k
EntriesFor(db, k) ==
    {i \in DOMAIN getAll(db, NoArg) :
        /\ getAll(db, NoArg)[i].key.ns = k.ns
        /\ getAll(db, NoArg)[i].key.name = k.name
        /\ getAll(db, NoArg)[i].key.storeType = k.storeType}

\* has(k) exactly when getAll() has one entry for k, whose value is get(k)
AgreesOn(db, k) ==
    has(db, k) <=>
        /\ Cardinality(EntriesFor(db, k)) = 1
        /\ \A i \in EntriesFor(db, k) : getAll(db, NoArg)[i].value = get(db, k)

\* C28: in every reachable state and for every key k built by createKey,
\* has(k) is true if and only if getAll() contains exactly one entry with
\* k's namespace, name and area, and that entry's value is deep-equal to
\* get(k).
C28_EnumerationAgreesWithReads ==
    \A k \in Keys : AgreesOn(DB, k)

\* the same for the keys without a line terminator in the name
C28_EnumerationAgreesOneLine ==
    \A k \in Keys : (Range(k.name) \cap LineTerminators = {}) => AgreesOn(DB, k)

----------------------------------------------------------------------------
(* The two areas of one namespace and name                                 *)

\* one namespace and name in both areas
TwinKeys == {KeyAX, KeyAXs}

\* the key with the namespace and name of k in the other area
Twin(k) == [k EXCEPT !.storeType = IF k.storeType = "local" THEN "session" ELSE "local"]

\* the twins and a key of another namespace
AreaKeys3 == TwinKeys \cup {KeyABX}

NextAreas ==
    \/ \E k \in AreaKeys3, v \in StoreValues : Save(k, v)
    \/ \E k \in TwinKeys, p \in StorePartials : Merge(k, p)
    \/ \E k \in AreaKeys3 : Remove(<<k>>)
    \/ Clear(Given(<<NsA>>))
    \/ GetAll(Given(<<NsA>>))

SpecAreas == InitEmpty /\ [][NextAreas]_vars

\* presence and value of key k are the same before and after the step
SameBeforeAndAfter(k) ==
    /\ has(DB', k) = has(DB, k)
    /\ get(DB', k) = get(DB, k)

\* C29: two keys with the same namespace and name but different areas are
\* independent: save, merge or remove on one of them leaves the presence
\* and value of the other unchanged, while clear(N) removes both and
\* getAll(N) lists both.
C29_AreaIsolation ==
    [][/\ last'.act \in {"save", "merge"} => SameBeforeAndAfter(Twin(last'.arg.key))
       /\ last'.act = "remove" =>
              \A i \in DOMAIN last'.arg.keys :
                  SameBeforeAndAfter(Twin(last'.arg.keys[i]))
       /\ last'.act = "clear" => \A k \in TwinKeys : ~has(DB', k)
       /\ last'.act = "getAll" =>
              \A k \in TwinKeys :
                  has(DB, k) <=>
                      \E i \in DOMAIN last'.result :
                          /\ last'.result[i].key = k
                          /\ last'.result[i].value = get(DB, k)]_vars

\* the session key was saved last and the local key of the same namespace
\* and name still holds its own value
C29_Witness ==
    /\ last.act = "save"
    /\ last.arg.key = KeyAXs
    /\ get(DB, KeyAXs) = ObjA(1)
    /\ has(DB, KeyAX)
    /\ get(DB, KeyAX) = Str("dark")

\* getAll of the namespace listed an entry of each area
C29_ListedBoth ==
    /\ last.act = "getAll"
    /\ \E i, j \in DOMAIN last.result :
          /\ last.result[i].key = KeyAX
          /\ last.result[j].key = KeyAXs

----------------------------------------------------------------------------
(* The filter helpers of utils.ts                                          *)

\* resolveTargets: the two filters for a target
resolveTargets(target) ==
    IF target.form = "none" THEN [keyNames |-> NoArg, nsPrefixes |-> NoArg]
    ELSE IF Len(target.namespaces) + Len(target.storeKeys) = 0
    THEN [keyNames |-> Given(<<>>), nsPrefixes |-> Given(<<>>)]
    ELSE IF target.form = "ns"
    THEN [keyNames |-> NoArg,
          nsPrefixes |-> Given([i \in DOMAIN target.namespaces |->
                                   PREFIX \o target.namespaces[i] \o <<COLON>>])]
    ELSE [keyNames |-> Given([i \in DOMAIN target.storeKeys |->
                                 getFullName(target.storeKeys[i].ns,
                                             target.storeKeys[i].name)]),
          nsPrefixes |-> NoArg]

\* isStrictStoreEvent: a filter is applied only when it is given and not
\* empty
isStrictStoreEvent(e, keyNames, nsPrefixes) ==
    IF Len(e.key) = 0 \/ ~startsWith(e.key, PREFIX) THEN FALSE
    ELSE IF /\ keyNames.given
            /\ Len(keyNames.list) > 0
            /\ ~\E i \in DOMAIN keyNames.list : keyNames.list[i] = e.key
    THEN FALSE
    ELSE ~(/\ nsPrefixes.given
           /\ Len(nsPrefixes.list) > 0
           /\ ~\E i \in DOMAIN nsPrefixes.list : startsWith(e.key, nsPrefixes.list[i]))

\* resolveTargets(target) is called
ResolveTargets(target) ==
    /\ last' = [act |-> "resolveTargets", arg |-> [target |-> target],
                changed |-> FALSE, err |-> ErrNone,
                result |-> [filters |-> resolveTargets(target), accepted |-> FALSE]]
    /\ calls' = <<>>
    /\ UNCHANGED <<localStorage, sessionStorage, recent, listeners, subs, cv, inflight>>

\* isStrictStoreEvent is called for event e with the filters resolved last
IsStrictStoreEvent(e) ==
    /\ last.act \in {"resolveTargets", "isStrictStoreEvent"}
    /\ last' = [act |-> "isStrictStoreEvent",
                arg |-> [target |-> last.arg.target, event |-> e],
                changed |-> FALSE, err |-> ErrNone,
                result |-> [filters |-> last.result.filters,
                            accepted |-> isStrictStoreEvent(e,
                                             last.result.filters.keyNames,
                                             last.result.filters.nsPrefixes)]]
    /\ calls' = <<>>
    /\ UNCHANGED <<localStorage, sessionStorage, recent, listeners, subs, cv, inflight>>

NextHelpers ==
    \/ \E t \in Targets : ResolveTargets(t)
    \/ \E e \in Events : IsStrictStoreEvent(e)

SpecHelpers == InitEmpty /\ [][NextHelpers]_vars

\* C30: resolveTargets with isStrictStoreEvent has the target semantics of
\* onChange: for an empty array target the resolved filter accepts no
\* event, and for every other target and every event it accepts the event
\* exactly when the filtering at the head of onChange's handler does.
C30_HelpersMatchOnChange ==
    last.act = "isStrictStoreEvent" =>
        IF last.arg.target = EmptyTarget
        THEN ~last.result.accepted
        ELSE last.result.accepted <=>
                 inlineFilter(onChangeFilters(last.arg.target), last.arg.event)

\* the same for the targets other than the empty array
C30_HelpersMatchNonEmpty ==
    (last.act = "isStrictStoreEvent" /\ last.arg.target # EmptyTarget) =>
        (last.result.accepted <=>
             inlineFilter(onChangeFilters(last.arg.target), last.arg.event))

====
